---- MODULE Spec2Model ----
(***************************************************************************)
(* imgui-log: a backend for the `log` facade (ChanneledLogger) that        *)
(* formats records and hands them through a bounded std::sync::mpsc        *)
(* sync_channel to a LogWindow, which the render thread drains and draws   *)
(* once per frame.  Model of src/src/lib.rs.                               *)
(*                                                                         *)
(* Threads: the producers (each runs ChanneledLogger::log, one call at a   *)
(* time), the render thread (LogWindow::build / clear / set_colors, and    *)
(* the drop of the window) and the callers of init_with_config.            *)
(* Atomic steps are the points where a thread touches shared state: the    *)
(* write to stdout, try_send, each try_recv.                               *)
(***************************************************************************)
EXTENDS Integers, Sequences, FiniteSets, TLC

(* ------------------------------------------------------------------ *)
(* Bounds of the model                                                 *)
(* ------------------------------------------------------------------ *)

\* The bound of the channel.  The program passes 128 to sync_channel
\* (lib.rs:344); the model runs the same code at a capacity TLC can fill.
Capacity == 4

\* Calls of log the producer makes under Spec and SpecInit.
MaxLogs == 2

\* Calls of log each producer makes under SpecConc: together they exceed
\* Capacity.
ConcLogs == 3

\* Calls of init_with_config.
MaxInits == 2

\* Lines the scrolling child window shows at once.
ViewLines == 1

\* The producer threads.
Producers == {"t1", "t2"}

(* ------------------------------------------------------------------ *)
(* log::Level and the records                                          *)
(* ------------------------------------------------------------------ *)

Levels == {"Error", "Warn", "Info", "Debug", "Trace"}

\* log::Level is ordered by its discriminant: Error = 1 < Warn < Info <
\* Debug < Trace = 5 (the more verbose, the greater).
LevelOrd(level) ==
    CASE level = "Error" -> 1
      [] level = "Warn"  -> 2
      [] level = "Info"  -> 3
      [] level = "Debug" -> 4
      [] level = "Trace" -> 5

\* Display of log::Level, as `{}` prints record.level().
LevelStr(level) ==
    CASE level = "Error" -> "ERROR"
      [] level = "Warn"  -> "WARN"
      [] level = "Info"  -> "INFO"
      [] level = "Debug" -> "DEBUG"
      [] level = "Trace" -> "TRACE"

\* Option<T>: None is the empty set and Some(x) the set holding x.
None == {}
Some(x) == {x}
Unwrap(opt) == CHOOSE x \in opt : TRUE

\* The records log is called with under SpecFmt: with and without a file,
\* with and without a line, at every level.
Records ==
    [level  : Levels,
     target : {"mod"},
     file   : {None, Some("a.rs")},
     line   : {None, Some(10)},
     args   : {"x", "y"}]

\* The call sites the producers log from: t1 from a known source location,
\* t2 from a record that carries no file and line (only its target).
CallSite(p) ==
    IF p = "t1" THEN [target |-> "app", file |-> Some("a.rs"), line |-> Some(10)]
                ELSE [target |-> "mod", file |-> None, line |-> None]

\* The record of producer p's k-th call: its message is the unique tag "p#k".
MkRecord(p, k, level) ==
    [level  |-> level,
     target |-> CallSite(p).target,
     file   |-> CallSite(p).file,
     line   |-> CallSite(p).line,
     args   |-> p \o "#" \o ToString(k)]

\* default_formatter that looks at record.file() alone and prints line 0
\* when record.line() is None.
default_formatter_file_only(record) ==
    LET msg == record.args
    IN IF record.file # None
       THEN Unwrap(record.file) \o ":"
            \o (IF record.line # None THEN ToString(Unwrap(record.line)) ELSE "0")
            \o " --- " \o LevelStr(record.level) \o ": " \o msg \o "\n"
       ELSE record.target \o " --- " \o LevelStr(record.level) \o ": " \o msg \o "\n"

default_formatter(record) ==
    LET msg == record.args
    IN IF record.file # None /\ record.line # None
       THEN Unwrap(record.file) \o ":" \o ToString(Unwrap(record.line)) \o " --- "
            \o LevelStr(record.level) \o ": " \o msg \o "\n"
       ELSE record.target \o " --- " \o LevelStr(record.level) \o ": " \o msg \o "\n"

\* enabled with the comparison turned round: Debug, the threshold, and Trace
\* pass and the more severe levels do not.
enabledReversed(level) == LevelOrd(level) >= LevelOrd("Debug")

\* ChanneledLogger::enabled: metadata.level() <= Level::Debug.
enabled(level) == LevelOrd(level) <= LevelOrd("Debug")

(* ------------------------------------------------------------------ *)
(* LogColors                                                           *)
(* ------------------------------------------------------------------ *)

DefaultColors ==
    [trace |-> <<0, 1, 0, 1>>,
     debug |-> <<0, 0, 1, 1>>,
     info  |-> <<1, 1, 1, 1>>,
     warn  |-> <<1, 1, 0, 1>>,
     error |-> <<1, 0, 0, 1>>]

\* A palette a caller configures (an input): every level differs from the
\* default one.
CustomColors ==
    [trace |-> <<1, 0, 1, 1>>,
     debug |-> <<0, 1, 1, 1>>,
     info  |-> <<0, 0, 0, 1>>,
     warn  |-> <<1, 0, 0, 1>>,
     error |-> <<0, 1, 0, 1>>]

Palettes == {DefaultColors, CustomColors}

\* LogColors::level
level(colors, lvl) ==
    CASE lvl = "Trace" -> colors.trace
      [] lvl = "Debug" -> colors.debug
      [] lvl = "Info"  -> colors.info
      [] lvl = "Warn"  -> colors.warn
      [] lvl = "Error" -> colors.error

(* ------------------------------------------------------------------ *)
(* LoggerConfig                                                        *)
(* ------------------------------------------------------------------ *)

\* LoggerConfig::default(): no formatter, no colors, stdout on.
DefaultConfig == [formatter |-> None, colors |-> None, stdout |-> TRUE]

\* LoggerConfig::colors, LoggerConfig::stdout: each returns the changed value.
WithColors(config, colors) == [config EXCEPT !.colors = Some(colors)]
WithStdout(config, flag) == [config EXCEPT !.stdout = flag]

\* The configurations init_with_config is called with.
Configs ==
    {DefaultConfig,
     WithStdout(DefaultConfig, FALSE),
     WithColors(DefaultConfig, CustomColors)}

\* LoggerConfig::build: the formatter is the configured one or default_formatter.
BuildLogger(config, channel) ==
    [channel   |-> channel,
     formatter |-> IF config.formatter # None THEN Unwrap(config.formatter)
                                              ELSE "default_formatter",
     stdout    |-> config.stdout]

(* ------------------------------------------------------------------ *)
(* State                                                               *)
(* ------------------------------------------------------------------ *)

VARIABLES
    logger,      \* the logger the log facade holds: None or the ChanneledLogger
    maxLevel,    \* log::max_level(): "Off" until set_max_level
    initCalls,   \* calls of init_with_config made so far
    initResult,  \* outcome of the last init_with_config: "None", "Ok", "SetLoggerError"
    chans,       \* the channels created, by number: [q, rx]
    win,         \* the LogWindow of the successful init: "none", "alive", "dropped"
    winChan,     \* LogWindow.channel: the number of the channel it receives from
    buf,         \* LogWindow.buf
    autoscroll,  \* LogWindow.autoscroll
    colors,      \* LogWindow.colors
    rpc,         \* render thread: "idle", "sync" (in LogWindow::sync), "draw"
    displayed,   \* the text_colored calls of the last frame drawn: <<color, text>>
    clipboard,   \* the text last given to set_clipboard_text
    scrollY,     \* ui.scroll_y() of the scrolling child, in lines
    scrollMaxY,  \* ui.scroll_max_y(): the position that shows the last line
    pc,          \* producer p: "idle" or "send" (in log, before try_send)
    pending,     \* producer p: the LogLine built by the call in progress
    logArg,      \* producer p: the Record the call in progress was given
    calls,       \* history: the levels of the calls of log producer p has
                 \*   started, in order
    stdout,      \* what print! has written, in order
    formatted,   \* history: the calls of the formatter made so far
    lost,        \* history: the lines whose try_send returned Err
    sent,        \* history: the lines whose try_send to the window's channel
                 \*   returned Ok, in the order of these calls, less the lines
                 \*   that a clear has since removed from buf
    discarded,   \* history: the lines a clear has removed from buf
    offered,     \* history: the lines try_send was called with since the last
                 \*   drain of the window's channel finished, in order
    drained,     \* history: sync has returned in this call of build and
                 \*   try_send has not been called since
    got,         \* history: lines the current (or last) sync has received
    calm,        \* history: builds begun since the last change of what a frame
                 \*   shows (a line enqueued, a clear, set_colors), capped at 2
    afterClear   \* history: "none"; from a call of clear() until a line is
                 \*   enqueued, "empty" if the channel was empty at the call and
                 \*   "queued" if it held lines, then "emptyDrawn" / "queuedDrawn"
                 \*   once a frame has been drawn

logVars    == <<logger, maxLevel, initCalls, initResult>>
winVars    == <<win, winChan, buf, autoscroll, colors>>
frameVars  == <<rpc, displayed, clipboard, scrollY, scrollMaxY>>
prodVars   == <<pc, pending, logArg, calls, stdout, formatted>>
histVars   == <<lost, sent, discarded, offered, drained, got, calm, afterClear>>

\* Calls of log producer p has started.
nlogs(p) == Len(calls[p])
vars == <<logVars, chans, winVars, frameVars, prodVars, histVars>>

ChanIds == 1..MaxInits

\* A channel not yet created by sync_channel.
NoChannel == [q |-> <<>>, rx |-> "none"]

Init ==
    /\ logger = None
    /\ maxLevel = "Off"
    /\ initCalls = 0
    /\ initResult = "None"
    /\ chans = [c \in ChanIds |-> NoChannel]
    /\ win = "none"
    /\ winChan = 0
    /\ buf = <<>>
    /\ autoscroll = FALSE
    /\ colors = DefaultColors
    /\ rpc = "idle"
    /\ displayed = <<>>
    /\ clipboard = None
    /\ scrollY = 0
    /\ scrollMaxY = 0
    /\ pc = [p \in Producers |-> "idle"]
    /\ pending = [p \in Producers |-> None]
    /\ logArg = [p \in Producers |-> None]
    /\ calls = [p \in Producers |-> <<>>]
    /\ lost = {}
    /\ sent = <<>>
    /\ discarded = {}
    /\ stdout = <<>>
    /\ formatted = 0
    /\ offered = <<>>
    /\ drained = FALSE
    /\ got = 0
    /\ calm = 0
    /\ afterClear = "none"

(* ------------------------------------------------------------------ *)
(* std::sync::mpsc::sync_channel, as the program uses it               *)
(* ------------------------------------------------------------------ *)

\* SyncSender::try_send: never waits.  Err(Disconnected) once the receiver is
\* dropped, Err(Full) when the buffer holds its bound, else the line is queued.
try_send(ch, line) ==
    IF ch.rx # "open" THEN [result |-> "Disconnected", ch |-> ch]
    ELSE IF Len(ch.q) >= Capacity THEN [result |-> "Full", ch |-> ch]
    ELSE [result |-> "Ok", ch |-> [ch EXCEPT !.q = Append(ch.q, line)]]

\* try_recv on a channel that hands out the newest queued line first.
try_recv_newest(ch) ==
    IF ch.q = <<>> THEN [result |-> "Empty", ch |-> ch]
    ELSE [result |-> "Ok", line |-> ch.q[Len(ch.q)],
          ch |-> [ch EXCEPT !.q = SubSeq(ch.q, 1, Len(ch.q) - 1)]]

\* Receiver::try_recv: never waits.  The oldest queued line, or Err(Empty).
\* (The sender lives in the installed logger and is never dropped, so the
\* receiver never sees Err(Disconnected).)
try_recv(ch) ==
    IF ch.q = <<>> THEN [result |-> "Empty", ch |-> ch]
    ELSE [result |-> "Ok", line |-> Head(ch.q), ch |-> [ch EXCEPT !.q = Tail(ch.q)]]

(* ------------------------------------------------------------------ *)
(* init_with_config and set_logger                                     *)
(* ------------------------------------------------------------------ *)

\* set_logger that calls set_max_level whatever set_boxed_logger returned.
set_logger_level_always(new) ==
    IF logger = None
    THEN [result |-> "Ok", logger |-> Some(new), maxLevel |-> "Debug"]
    ELSE [result |-> "SetLoggerError", logger |-> logger, maxLevel |-> "Debug"]

\* set_logger on a facade that takes every logger it is given.
set_logger_replacing(new) ==
    [result |-> "Ok", logger |-> Some(new), maxLevel |-> "Debug"]

\* log::set_boxed_logger(..).map(|()| set_max_level(Debug)): the facade takes
\* a logger once; a later call gets Err(SetLoggerError) and changes nothing.
set_logger(new) ==
    IF logger = None
    THEN [result |-> "Ok", logger |-> Some(new), maxLevel |-> "Debug"]
    ELSE [result |-> "SetLoggerError", logger |-> logger, maxLevel |-> maxLevel]

\* The application calls log::set_max_level(filter) itself.
SetMaxLevel(filter) ==
    /\ maxLevel' = filter
    /\ UNCHANGED <<logger, initCalls, initResult, chans, winVars, frameVars,
                   prodVars, histVars>>

\* init_with_config(config): a new channel and window, the logger built on
\* the channel's sender, set_logger(..).unwrap().  When unwrap panics the
\* window (with the receiver) and the logger (with the sender) of this call
\* are dropped by the unwinding and no window is returned.
InitWithConfig(config) ==
    /\ LET id == initCalls + 1
           r  == set_logger(BuildLogger(config, id))
       IN /\ initCalls' = id
          /\ initResult' = r.result
          /\ logger' = r.logger
          /\ maxLevel' = r.maxLevel
          /\ IF r.result = "Ok"
             THEN /\ chans' = [chans EXCEPT ![id] = [q |-> <<>>, rx |-> "open"]]
                  /\ win' = "alive"
                  /\ winChan' = id
                  /\ buf' = <<>>
                  /\ autoscroll' = FALSE
                  /\ colors' = IF config.colors # None THEN Unwrap(config.colors)
                                                      ELSE DefaultColors
             ELSE /\ chans' = [chans EXCEPT ![id] = [q |-> <<>>, rx |-> "closed"]]
                  /\ UNCHANGED winVars
    /\ UNCHANGED <<frameVars, prodVars, histVars>>

(* ------------------------------------------------------------------ *)
(* ChanneledLogger::log                                                *)
(* ------------------------------------------------------------------ *)

\* The installed logger's channel is the one the live window receives from.
Feeds == logger # None /\ win = "alive" /\ Unwrap(logger).channel = winChan

\* LogRecord that runs the formatter and print! before the enabled test.
LogRecordPrintAll(p, record) ==
    /\ logger # None
    /\ pc[p] = "idle"
    /\ calls' = [calls EXCEPT ![p] = Append(@, record.level)]
    /\ LET self == Unwrap(logger)
           text == default_formatter(record)
       IN /\ formatted' = formatted + 1
          /\ stdout' = IF self.stdout THEN Append(stdout, text) ELSE stdout
          /\ IF enabled(record.level)
             THEN /\ pending' = [pending EXCEPT
                                   ![p] = Some([text |-> text, level |-> record.level])]
                  /\ logArg' = [logArg EXCEPT ![p] = Some(record)]
                  /\ pc' = [pc EXCEPT ![p] = "send"]
             ELSE UNCHANGED <<pending, logArg, pc>>
    /\ UNCHANGED <<logVars, chans, winVars, frameVars, histVars>>

\* log(record) up to the send: the enabled test, the formatter, print! when
\* the stdout flag is set, and the LogLine.  A record that is not enabled
\* ends the call here.
LogRecord(p, record) ==
    /\ logger # None
    /\ pc[p] = "idle"
    /\ calls' = [calls EXCEPT ![p] = Append(@, record.level)]
    /\ LET self == Unwrap(logger)
           text == default_formatter(record)
       IN IF enabled(record.level)
          THEN /\ formatted' = formatted + 1
               /\ stdout' = IF self.stdout THEN Append(stdout, text) ELSE stdout
               /\ pending' = [pending EXCEPT
                                ![p] = Some([text |-> text, level |-> record.level])]
               /\ logArg' = [logArg EXCEPT ![p] = Some(record)]
               /\ pc' = [pc EXCEPT ![p] = "send"]
          ELSE UNCHANGED <<formatted, stdout, pending, logArg, pc>>
    /\ UNCHANGED <<logVars, chans, winVars, frameVars, histVars>>

\* Producer p calls log with the record of its next call, at lvl.
LogBegin(p, lvl) == LogRecord(p, MkRecord(p, nlogs(p) + 1, lvl))

\* LogSend on a channel without a bound (mpsc::channel and send): the line is
\* queued whatever the channel holds.
LogSendUnbounded(p) ==
    /\ pc[p] = "send"
    /\ LET self == Unwrap(logger)
           line == Unwrap(pending[p])
           ch   == chans[self.channel]
           ok   == ch.rx = "open"
       IN /\ chans' = [chans EXCEPT
                         ![self.channel] = IF ok THEN [ch EXCEPT !.q = Append(ch.q, line)]
                                                 ELSE ch]
          /\ lost' = IF ok THEN lost ELSE lost \cup {line}
          /\ sent' = IF ok THEN Append(sent, line) ELSE sent
          /\ offered' = IF ~Feeds THEN offered
                        ELSE IF drained THEN <<line>> ELSE Append(offered, line)
          /\ calm' = IF ok THEN 0 ELSE calm
          /\ afterClear' = IF ok THEN "none" ELSE afterClear
    /\ drained' = FALSE
    /\ pc' = [pc EXCEPT ![p] = "idle"]
    /\ pending' = [pending EXCEPT ![p] = None]
    /\ logArg' = [logArg EXCEPT ![p] = None]
    /\ UNCHANGED <<logVars, winVars, frameVars, calls, stdout, formatted, got, discarded>>

\* LogSend with SyncSender::send in place of try_send: the call waits while
\* the channel is full.
LogSendBlocking(p) ==
    /\ pc[p] = "send"
    /\ LET self == Unwrap(logger)
           line == Unwrap(pending[p])
           ch   == chans[self.channel]
       IN /\ ch.rx = "open" => Len(ch.q) < Capacity
          /\ LET r == try_send(ch, line)
             IN /\ chans' = [chans EXCEPT ![self.channel] = r.ch]
                /\ lost' = IF r.result = "Ok" THEN lost ELSE lost \cup {line}
                /\ sent' = IF r.result = "Ok" THEN Append(sent, line) ELSE sent
                /\ offered' = IF ~Feeds THEN offered
                              ELSE IF drained THEN <<line>> ELSE Append(offered, line)
                /\ calm' = IF r.result = "Ok" THEN 0 ELSE calm
                /\ afterClear' = IF r.result = "Ok" THEN "none" ELSE afterClear
    /\ drained' = FALSE
    /\ pc' = [pc EXCEPT ![p] = "idle"]
    /\ pending' = [pending EXCEPT ![p] = None]
    /\ logArg' = [logArg EXCEPT ![p] = None]
    /\ UNCHANGED <<logVars, winVars, frameVars, calls, stdout, formatted, got, discarded>>

\* LogSend with try_send(line).unwrap(): an Err panics the calling thread.
LogSendUnwrap(p) ==
    /\ pc[p] = "send"
    /\ LET self == Unwrap(logger)
           line == Unwrap(pending[p])
           r    == try_send(chans[self.channel], line)
       IN /\ chans' = [chans EXCEPT ![self.channel] = r.ch]
          /\ lost' = IF r.result = "Ok" THEN lost ELSE lost \cup {line}
          /\ sent' = IF r.result = "Ok" THEN Append(sent, line) ELSE sent
          /\ offered' = IF ~Feeds THEN offered
                        ELSE IF drained THEN <<line>> ELSE Append(offered, line)
          /\ calm' = IF r.result = "Ok" THEN 0 ELSE calm
          /\ afterClear' = IF r.result = "Ok" THEN "none" ELSE afterClear
          /\ pc' = [pc EXCEPT ![p] = IF r.result = "Ok" THEN "idle" ELSE "panicked"]
    /\ drained' = FALSE
    /\ pending' = [pending EXCEPT ![p] = None]
    /\ logArg' = [logArg EXCEPT ![p] = None]
    /\ UNCHANGED <<logVars, winVars, frameVars, calls, stdout, formatted, got, discarded>>

\* LogSend on a channel that makes room for the new line by dropping the
\* oldest one it holds.
LogSendEvictOldest(p) ==
    /\ pc[p] = "send"
    /\ LET self == Unwrap(logger)
           line == Unwrap(pending[p])
           ch   == chans[self.channel]
           room == IF Len(ch.q) >= Capacity THEN [ch EXCEPT !.q = Tail(ch.q)] ELSE ch
           r    == try_send(room, line)
       IN /\ chans' = [chans EXCEPT ![self.channel] = r.ch]
          /\ lost' = IF r.result = "Ok" THEN lost ELSE lost \cup {line}
          /\ sent' = IF r.result = "Ok" THEN Append(sent, line) ELSE sent
          /\ offered' = IF ~Feeds THEN offered
                        ELSE IF drained THEN <<line>> ELSE Append(offered, line)
          /\ calm' = IF r.result = "Ok" THEN 0 ELSE calm
          /\ afterClear' = IF r.result = "Ok" THEN "none" ELSE afterClear
    /\ drained' = FALSE
    /\ pc' = [pc EXCEPT ![p] = "idle"]
    /\ pending' = [pending EXCEPT ![p] = None]
    /\ logArg' = [logArg EXCEPT ![p] = None]
    /\ UNCHANGED <<logVars, winVars, frameVars, calls, stdout, formatted, got, discarded>>

\* let _ = self.channel.try_send(line): the result is discarded and log returns.
LogSend(p) ==
    /\ pc[p] = "send"
    /\ LET self == Unwrap(logger)
           line == Unwrap(pending[p])
           r    == try_send(chans[self.channel], line)
       IN /\ chans' = [chans EXCEPT ![self.channel] = r.ch]
          /\ lost' = IF r.result = "Ok" THEN lost ELSE lost \cup {line}
          /\ sent' = IF r.result = "Ok" THEN Append(sent, line) ELSE sent
          /\ offered' = IF ~Feeds THEN offered
                        ELSE IF drained THEN <<line>> ELSE Append(offered, line)
          /\ calm' = IF r.result = "Ok" THEN 0 ELSE calm
          /\ afterClear' = IF r.result = "Ok" THEN "none" ELSE afterClear
    /\ drained' = FALSE
    /\ pc' = [pc EXCEPT ![p] = "idle"]
    /\ pending' = [pending EXCEPT ![p] = None]
    /\ logArg' = [logArg EXCEPT ![p] = None]
    /\ UNCHANGED <<logVars, winVars, frameVars, calls, stdout, formatted, got, discarded>>

(* ------------------------------------------------------------------ *)
(* LogWindow                                                           *)
(* ------------------------------------------------------------------ *)

\* The lines of `lines`, in order, that are not among `cleared`.
NotIn(lines, cleared) ==
    LET Kept(l) == \A i \in DOMAIN cleared : cleared[i] # l
    IN SelectSeq(lines, Kept)

\* What the loop over buf draws: text_colored(colors.level(record.level), text).
Shown(lines, palette) ==
    [i \in 1..Len(lines) |->
        [color |-> level(palette, lines[i].level), text |-> lines[i].text]]

\* buf.iter().map(to_string).collect().join("\n"): the texts, a "\n" between
\* each two.
RECURSIVE Join(_)
Join(lines) ==
    IF lines = <<>> THEN ""
    ELSE IF Len(lines) = 1 THEN lines[1].text
    ELSE lines[1].text \o "\n" \o Join(Tail(lines))

\* build() is entered: self.sync() starts.
BuildBegin ==
    /\ win = "alive"
    /\ rpc = "idle"
    /\ rpc' = "sync"
    /\ got' = 0
    /\ calm' = IF calm < 2 THEN calm + 1 ELSE calm
    /\ UNCHANGED <<logVars, chans, winVars, displayed, clipboard, scrollY, scrollMaxY,
                   prodVars,
                   lost, sent, discarded, offered, drained, afterClear>>

\* SyncRecv with the line put at the front of buf instead of pushed.
SyncRecvFront ==
    /\ rpc = "sync"
    /\ LET r == try_recv(chans[winChan])
       IN /\ r.result = "Ok"
          /\ buf' = <<r.line>> \o buf
          /\ chans' = [chans EXCEPT ![winChan] = r.ch]
    /\ got' = got + 1
    /\ UNCHANGED <<logVars, win, winChan, autoscroll, colors, frameVars, prodVars,
                   lost, sent, discarded, offered, drained, calm, afterClear>>

\* SyncRecv that pushes the line it received twice.
SyncRecvTwice ==
    /\ rpc = "sync"
    /\ LET r == try_recv(chans[winChan])
       IN /\ r.result = "Ok"
          /\ buf' = Append(Append(buf, r.line), r.line)
          /\ chans' = [chans EXCEPT ![winChan] = r.ch]
    /\ got' = got + 1
    /\ UNCHANGED <<logVars, win, winChan, autoscroll, colors, frameVars, prodVars,
                   lost, sent, discarded, offered, drained, calm, afterClear>>

\* SyncRecv on a buf kept as a ring of Capacity lines: pushing onto a full
\* buf evicts its oldest line.
SyncRecvCapped ==
    /\ rpc = "sync"
    /\ LET r == try_recv(chans[winChan])
       IN /\ r.result = "Ok"
          /\ buf' = IF Len(buf) >= Capacity THEN Append(Tail(buf), r.line)
                                            ELSE Append(buf, r.line)
          /\ chans' = [chans EXCEPT ![winChan] = r.ch]
    /\ got' = got + 1
    /\ UNCHANGED <<logVars, win, winChan, autoscroll, colors, frameVars, prodVars,
                   lost, sent, discarded, offered, drained, calm, afterClear>>

\* SyncRecv that receives a line and does not push it.
SyncRecvDrop ==
    /\ rpc = "sync"
    /\ LET r == try_recv(chans[winChan])
       IN /\ r.result = "Ok"
          /\ buf' = buf
          /\ chans' = [chans EXCEPT ![winChan] = r.ch]
    /\ got' = got + 1
    /\ UNCHANGED <<logVars, win, winChan, autoscroll, colors, frameVars, prodVars,
                   lost, sent, discarded, offered, drained, calm, afterClear>>

\* One turn of `while let Ok(line) = self.channel.try_recv()`: a line is
\* received and pushed.
SyncRecv ==
    /\ rpc = "sync"
    /\ LET r == try_recv(chans[winChan])
       IN /\ r.result = "Ok"
          /\ buf' = Append(buf, r.line)
          /\ chans' = [chans EXCEPT ![winChan] = r.ch]
    /\ got' = got + 1
    /\ UNCHANGED <<logVars, win, winChan, autoscroll, colors, frameVars, prodVars,
                   lost, sent, discarded, offered, drained, calm, afterClear>>

\* SyncDone for `if let` in place of `while let`: sync returns after one
\* turn, whatever the channel still holds.
SyncDoneEarly ==
    /\ rpc = "sync"
    /\ got >= 1 \/ try_recv(chans[winChan]).result # "Ok"
    /\ rpc' = "draw"
    /\ drained' = TRUE
    /\ UNCHANGED <<logVars, chans, winVars, displayed, clipboard, scrollY, scrollMaxY,
                   prodVars,
                   lost, sent, discarded, offered, got, calm, afterClear>>

\* try_recv returns Err: the loop ends and sync returns.
SyncDone ==
    /\ rpc = "sync"
    /\ try_recv(chans[winChan]).result # "Ok"
    /\ rpc' = "draw"
    /\ drained' = TRUE
    /\ UNCHANGED <<logVars, chans, winVars, displayed, clipboard, scrollY, scrollMaxY,
                   prodVars,
                   lost, sent, discarded, offered, got, calm, afterClear>>

\* The scroll position that shows the last of `lines`.
ContentMaxY(lines) == IF Len(lines) > ViewLines THEN Len(lines) - ViewLines ELSE 0

\* Draw that calls set_scroll_here_y_with_ratio(1.0) in every frame.
DrawPinAlways(clear, copy, toggle) ==
    /\ rpc = "draw"
    /\ autoscroll' = IF toggle THEN ~autoscroll ELSE autoscroll
    /\ buf' = IF clear THEN <<>> ELSE buf
    /\ clipboard' = IF copy THEN Some(Join(buf')) ELSE clipboard
    /\ displayed' = Shown(buf', colors)
    /\ scrollMaxY' = ContentMaxY(buf')
    /\ scrollY' = scrollMaxY'
    /\ rpc' = "idle"
    /\ calm' = IF clear THEN 0 ELSE calm
    /\ afterClear' = CASE afterClear = "empty"  -> "emptyDrawn"
                        [] afterClear = "queued" -> "queuedDrawn"
                        [] OTHER                 -> afterClear
    /\ offered' = IF drained THEN <<>> ELSE offered
    /\ drained' = FALSE
    /\ sent' = IF clear THEN NotIn(sent, buf) ELSE sent
    /\ discarded' = IF clear THEN discarded \cup {buf[i] : i \in DOMAIN buf} ELSE discarded
    /\ UNCHANGED <<logVars, chans, win, winChan, colors, prodVars, lost, got>>

\* Draw for a build that applies Clear before its drain: the lines sync
\* pushed in this frame stay in buf.
DrawClearOlder(clear, copy, toggle) ==
    /\ rpc = "draw"
    /\ autoscroll' = IF toggle THEN ~autoscroll ELSE autoscroll
    /\ buf' = IF clear THEN SubSeq(buf, Len(buf) - got + 1, Len(buf)) ELSE buf
    /\ clipboard' = IF copy THEN Some(Join(buf')) ELSE clipboard
    /\ displayed' = Shown(buf', colors)
    /\ scrollMaxY' = ContentMaxY(buf')
    /\ scrollY' = IF autoscroll' \/ scrollY >= scrollMaxY THEN scrollMaxY' ELSE scrollY
    /\ rpc' = "idle"
    /\ calm' = IF clear THEN 0 ELSE calm
    /\ afterClear' = CASE afterClear = "empty"  -> "emptyDrawn"
                        [] afterClear = "queued" -> "queuedDrawn"
                        [] OTHER                 -> afterClear
    /\ offered' = IF drained THEN <<>> ELSE offered
    /\ drained' = FALSE
    /\ sent' = IF clear THEN NotIn(sent, buf) ELSE sent
    /\ discarded' = IF clear THEN discarded \cup {buf[i] : i \in DOMAIN buf} ELSE discarded
    /\ UNCHANGED <<logVars, chans, win, winChan, colors, prodVars, lost, got>>

\* The closure given to window.build, for a window that is shown: the
\* Auto-scroll checkbox (toggle: the user clicks it), the Clear and Copy
\* buttons (pressed or not), then every line of buf drawn in its colour, and
\* set_scroll_here_y_with_ratio(1.0) when autoscroll is on or the scroll
\* position is at its maximum.
Draw(clear, copy, toggle) ==
    /\ rpc = "draw"
    /\ autoscroll' = IF toggle THEN ~autoscroll ELSE autoscroll
    /\ buf' = IF clear THEN <<>> ELSE buf
    /\ clipboard' = IF copy THEN Some(Join(buf')) ELSE clipboard
    /\ displayed' = Shown(buf', colors)
    /\ scrollMaxY' = ContentMaxY(buf')
    /\ scrollY' = IF autoscroll' \/ scrollY >= scrollMaxY THEN scrollMaxY' ELSE scrollY
    /\ rpc' = "idle"
    /\ calm' = IF clear THEN 0 ELSE calm
    /\ afterClear' = CASE afterClear = "empty"  -> "emptyDrawn"
                        [] afterClear = "queued" -> "queuedDrawn"
                        [] OTHER                 -> afterClear
    /\ offered' = IF drained THEN <<>> ELSE offered
    /\ drained' = FALSE
    /\ sent' = IF clear THEN NotIn(sent, buf) ELSE sent
    /\ discarded' = IF clear THEN discarded \cup {buf[i] : i \in DOMAIN buf} ELSE discarded
    /\ UNCHANGED <<logVars, chans, win, winChan, colors, prodVars, lost, got>>

\* The user scrolls the child window to position y.
UserScroll(y) ==
    /\ win = "alive"
    /\ rpc = "idle"
    /\ y \in 0..scrollMaxY
    /\ y # scrollY
    /\ scrollY' = y
    /\ UNCHANGED <<logVars, chans, winVars, rpc, displayed, clipboard, scrollMaxY,
                   prodVars, histVars>>

\* clear that leaves buf as it is.
ClearNothing ==
    /\ win = "alive"
    /\ rpc = "idle"
    /\ buf' = buf
    /\ calm' = 0
    /\ afterClear' = IF chans[winChan].q = <<>> THEN "empty" ELSE "queued"
    /\ sent' = NotIn(sent, buf)
    /\ discarded' = discarded \cup {buf[i] : i \in DOMAIN buf}
    /\ UNCHANGED <<logVars, chans, win, winChan, autoscroll, colors, frameVars,
                   prodVars, lost, offered, drained, got>>

\* LogWindow::clear
Clear ==
    /\ win = "alive"
    /\ rpc = "idle"
    /\ buf' = <<>>
    /\ calm' = 0
    /\ afterClear' = IF chans[winChan].q = <<>> THEN "empty" ELSE "queued"
    /\ sent' = NotIn(sent, buf)
    /\ discarded' = discarded \cup {buf[i] : i \in DOMAIN buf}
    /\ UNCHANGED <<logVars, chans, win, winChan, autoscroll, colors, frameVars,
                   prodVars, lost, offered, drained, got>>

\* set_colors that takes over the palette's error colour only.
SetColorsErrorOnly(palette) ==
    /\ win = "alive"
    /\ rpc = "idle"
    /\ colors' = [colors EXCEPT !.error = palette.error]
    /\ calm' = 0
    /\ UNCHANGED <<logVars, chans, win, winChan, buf, autoscroll, frameVars,
                   prodVars, lost, sent, discarded, offered, drained, got, afterClear>>

\* LogWindow::set_colors
SetColors(palette) ==
    /\ win = "alive"
    /\ rpc = "idle"
    /\ colors' = palette
    /\ calm' = 0
    /\ UNCHANGED <<logVars, chans, win, winChan, buf, autoscroll, frameVars,
                   prodVars, lost, sent, discarded, offered, drained, got, afterClear>>

\* The caller drops the LogWindow: buf is freed and the Receiver is dropped,
\* which disconnects the channel and frees what it still held.
DropWindow ==
    /\ win = "alive"
    /\ rpc = "idle"
    /\ win' = "dropped"
    /\ buf' = <<>>
    /\ chans' = [chans EXCEPT ![winChan] = [q |-> <<>>, rx |-> "closed"]]
    /\ offered' = <<>>
    /\ sent' = <<>>
    /\ discarded' = {}
    /\ afterClear' = "none"
    /\ UNCHANGED <<logVars, winChan, autoscroll, colors, frameVars, prodVars,
                   lost, drained, got, calm>>

(* ------------------------------------------------------------------ *)
(* Specifications                                                      *)
(* ------------------------------------------------------------------ *)

\* Spec: one producer logging at every level, one init_with_config with any
\* of the configurations, and every operation of the window.
Next ==
    \/ \E config \in Configs : logger = None /\ InitWithConfig(config)
    \/ \E lvl \in Levels : nlogs("t1") < MaxLogs /\ LogBegin("t1", lvl)
    \/ LogSend("t1")
    \/ BuildBegin
    \/ SyncRecv
    \/ SyncDone
    \/ \E clear, copy, toggle \in BOOLEAN : Draw(clear, copy, toggle)
    \/ Clear
    \/ \E palette \in Palettes : SetColors(palette)
    \/ DropWindow

Spec == Init /\ [][Next]_vars

\* SpecInit: init_with_config called again and again, by callers that go on
\* after a panic of it (another thread, or catch_unwind), while one producer
\* logs and the window is drained, drawn and dropped.
NextInit ==
    \/ \E config \in Configs : initCalls < MaxInits /\ InitWithConfig(config)
    \/ \E lvl \in Levels : nlogs("t1") < MaxLogs /\ LogBegin("t1", lvl)
    \/ LogSend("t1")
    \/ BuildBegin
    \/ SyncRecv
    \/ SyncDone
    \/ Draw(FALSE, FALSE, FALSE)
    \/ DropWindow

SpecInit == Init /\ [][NextInit]_vars

\* SpecConc: the producers log concurrently with each other and with the
\* render thread; the logger is configured with stdout(false).  t1 logs at
\* Trace and Info, t2 at Info.
ConcLevels(p) == IF p = "t1" THEN {"Trace", "Info"} ELSE {"Info"}

NextConc ==
    \/ logger = None /\ InitWithConfig(WithStdout(DefaultConfig, FALSE))
    \/ \E p \in Producers : \E lvl \in ConcLevels(p) :
          nlogs(p) < ConcLogs /\ LogBegin(p, lvl)
    \/ \E p \in Producers : LogSend(p)
    \/ BuildBegin
    \/ SyncRecv
    \/ SyncDone
    \/ \E clear \in BOOLEAN : Draw(clear, FALSE, FALSE)
    \/ Clear
    \/ DropWindow

SpecConc == Init /\ [][NextConc]_vars

\* SpecFmt: one call of log with any of Records, by a logger with the
\* default configuration (default_formatter, stdout on), and the frames that
\* show its line.
NextFmt ==
    \/ logger = None /\ InitWithConfig(DefaultConfig)
    \/ \E record \in Records : calls["t1"] = <<>> /\ LogRecord("t1", record)
    \/ LogSend("t1")
    \/ BuildBegin
    \/ SyncRecv
    \/ SyncDone
    \/ Draw(FALSE, FALSE, FALSE)

SpecFmt == Init /\ [][NextFmt]_vars

\* SpecOut: one producer logs, at Trace and at Info, more lines than the
\* channel holds, through a logger with stdout on or off, while the window
\* is drained, drawn and dropped.
NextOut ==
    \/ \E flag \in BOOLEAN :
          logger = None /\ InitWithConfig(WithStdout(DefaultConfig, flag))
    \/ \E lvl \in {"Trace", "Info"} : nlogs("t1") <= Capacity + 2 /\ LogBegin("t1", lvl)
    \/ LogSend("t1")
    \/ BuildBegin
    \/ SyncRecv
    \/ SyncDone
    \/ Draw(FALSE, FALSE, FALSE)
    \/ DropWindow

SpecOut == Init /\ [][NextOut]_vars

\* SpecScroll: one producer logs more lines than the child window shows,
\* the user scrolls and toggles the Auto-scroll checkbox, frames are drawn.
NextScroll ==
    \/ logger = None /\ InitWithConfig(WithStdout(DefaultConfig, FALSE))
    \/ nlogs("t1") < MaxLogs + ViewLines /\ LogBegin("t1", "Info")
    \/ LogSend("t1")
    \/ BuildBegin
    \/ SyncRecv
    \/ SyncDone
    \/ \E toggle \in BOOLEAN : Draw(FALSE, FALSE, toggle)
    \/ \E y \in 0..(MaxLogs + ViewLines) : UserScroll(y)

SpecScroll == Init /\ [][NextScroll]_vars

\* SpecLevel: init_with_config called again and again by an application
\* that also sets the maximum level itself, to a level other than Debug,
\* while one producer logs and frames are drawn.
NextLevel ==
    \/ \E config \in Configs : initCalls < MaxInits /\ InitWithConfig(config)
    \/ \E filter \in {"Off", "Info", "Trace"} : filter # maxLevel /\ SetMaxLevel(filter)
    \/ nlogs("t1") < MaxLogs /\ LogBegin("t1", "Info")
    \/ LogSend("t1")
    \/ BuildBegin
    \/ SyncRecv
    \/ SyncDone
    \/ Draw(FALSE, FALSE, FALSE)

SpecLevel == Init /\ [][NextLevel]_vars

(* ------------------------------------------------------------------ *)
(* Vocabulary of the properties                                        *)
(* ------------------------------------------------------------------ *)

Range(seq) == {seq[i] : i \in DOMAIN seq}

LastN(seq, n) == SubSeq(seq, Len(seq) - n + 1, Len(seq))

\* The queue of the channel the window receives from.
Chan == chans[winChan].q

\* The LogLine a call of log builds for producer p's k-th record at lvl.
LineOf(p, k, lvl) ==
    [text |-> default_formatter(MkRecord(p, k, lvl)), level |-> lvl]

\* The LogLine of the k-th call producer p made.
Call(p, k) == LineOf(p, k, calls[p][k])

\* The lines of `lines` that calls of producer p built.
FromProducer(p, lines) ==
    LET Mine(l) == \E k \in 1..nlogs(p) : l = Call(p, k)
    IN SelectSeq(lines, Mine)

\* The lines of producer p's calls, in the order of the calls, that try_send
\* was called with since the last drain finished.
EpochCalls(p) ==
    LET Offered(l) == l \in Range(offered)
    IN SelectSeq([k \in 1..nlogs(p) |-> Call(p, k)], Offered)

\* The drain of this frame has just finished: sync has returned and no line
\* was sent since; offered are the lines sent between the drain before it
\* and its end, and the last `got` lines of buf the lines it received.
DrainDone == Feeds /\ rpc = "draw" /\ drained

\* How many of the lines of `offered` were received.
EpochRecv == IF rpc = "sync" \/ drained THEN got ELSE 0

(* ------------------------------------------------------------------ *)
(* Properties                                                          *)
(* ------------------------------------------------------------------ *)

\* C1: when at most Capacity enabled calls of log were made since the last
\* drain, the lines the next drain adds to buf hold, for each producer
\* thread, the lines of its calls in the order in which it called log.
C1_ProducerOrder ==
    (DrainDone /\ Len(offered) <= Capacity) =>
        \A p \in Producers : FromProducer(p, LastN(buf, got)) = EpochCalls(p)

\* A drain has delivered two lines of t1, logged while t2 logged a line too.
C1_Witness ==
    /\ DrainDone
    /\ Len(offered) = 3
    /\ Len(EpochCalls("t1")) = 2
    /\ Len(EpochCalls("t2")) = 1
    /\ got = 3

\* C2: the channel never holds more than Capacity lines; Capacity lines sent
\* since the last drain are all delivered by the next one; of more than
\* Capacity lines sent with no receive in between, the first Capacity are
\* queued for the next drain and the others are lost: a line whose try_send
\* failed is in no queue and never in buf.
C2_CapacityThenLoss ==
    Feeds =>
        /\ Len(Chan) <= Capacity
        /\ (DrainDone /\ Len(offered) = Capacity) =>
               (got = Capacity /\ LastN(buf, got) = offered)
        /\ (EpochRecv = 0 /\ Len(offered) > Capacity) =>
               Chan = SubSeq(offered, 1, Capacity)
        /\ \A l \in lost : l \notin Range(buf) \cup Range(Chan)

\* Capacity + 1 lines were sent before the drain began; the drain has
\* delivered Capacity of them and the last one sent is lost.
C2_Witness ==
    /\ DrainDone
    /\ Len(offered) = Capacity + 1
    /\ got = Capacity
    /\ LastN(buf, got) = SubSeq(offered, 1, Capacity)
    /\ lost = {offered[Capacity + 1]}

\* Every line the program holds anywhere.
AllLines ==
    UNION {Range(chans[c].q) : c \in ChanIds}
        \cup Range(buf) \cup UNION {pending[p] : p \in Producers}
        \cup lost \cup Range(offered)

\* Every text the program holds or has written anywhere.
AllTexts ==
    {l.text : l \in AllLines} \cup Range(stdout)
        \cup {displayed[i].text : i \in DOMAIN displayed}

\* The lines of producer p's calls at the levels other than Trace, in the
\* order of the calls.
EnabledCalls(p) ==
    LET NotTrace(l) == l.level # "Trace"
    IN SelectSeq([k \in 1..nlogs(p) |-> Call(p, k)], NotTrace)

\* The line of the call in progress, if producer p is before its try_send.
PendingSeq(p) == IF pending[p] = None THEN <<>> ELSE <<Unwrap(pending[p])>>

\* C3: enabled is false for Trace and true for Debug, Info, Warn and Error;
\* a call of log at Trace leaves no line and no text anywhere; and, while
\* the window lives (no line is cleared under SpecInit, and the channel
\* never fills), buf followed by the channel and the line about to be sent
\* is exactly one line per call at an enabled level, in the order of the calls.
C3_LevelFilter ==
    /\ ~enabled("Trace")
    /\ \A lvl \in Levels \ {"Trace"} : enabled(lvl)
    /\ \A p \in Producers : \A k \in 1..nlogs(p) :
          calls[p][k] = "Trace" =>
              \A lvl \in Levels :
                  /\ LineOf(p, k, lvl) \notin AllLines
                  /\ LineOf(p, k, lvl).text \notin AllTexts
    /\ Feeds => buf \o Chan \o PendingSeq("t1") = EnabledCalls("t1")

\* After a call at Trace and a call at Warn the drained buf holds the one
\* line of the Warn call.
C3_Witness ==
    /\ Feeds
    /\ DrainDone
    /\ calls["t1"] = <<"Trace", "Warn">>
    /\ pc["t1"] = "idle"
    /\ buf = <<Call("t1", 2)>>
    /\ Chan = <<>>

\* Every producer has returned from its last call of log.
AllSent == \A p \in Producers : pc[p] = "idle"

\* C4: when every one of the N producers has sent M enabled lines, N * M <=
\* Capacity, all of them since the last drain, then after the drain that
\* follows buf holds N * M lines: the lines of every producer, each once,
\* in the order of that producer's calls.
C4_AllLinesOnce ==
    \A M \in 1..ConcLogs :
        (/\ DrainDone
         /\ AllSent
         /\ Cardinality(Producers) * M <= Capacity
         /\ \A p \in Producers : Len(EnabledCalls(p)) = M
         /\ Len(offered) = Cardinality(Producers) * M)
        => /\ Len(buf) = Cardinality(Producers) * M
           /\ \A p \in Producers : FromProducer(p, buf) = EnabledCalls(p)

\* Two producers have sent two lines each, interleaved, and one drain has
\* delivered the four.
C4_Witness ==
    /\ DrainDone
    /\ AllSent
    /\ \A p \in Producers : Len(EnabledCalls(p)) = 2
    /\ got = 4
    /\ buf = <<EnabledCalls("t1")[1], EnabledCalls("t2")[1],
               EnabledCalls("t2")[2], EnabledCalls("t1")[2]>>

C9_NothingDelivered ==
    win = "dropped" =>
        /\ \A c \in ChanIds : chans[c].q = <<>>
        /\ buf = <<>>

\* A call of log that ends while the window is dropped ends in its one
\* try_send step, returns to its caller, and its line is lost.
C9_CallAfterDrop(p) ==
    (win = "dropped" /\ pc[p] = "send") =>
        /\ ENABLED LogSend(p)
        /\ pc'[p] # pc[p] =>
              /\ pc'[p] = "idle"
              /\ Unwrap(pending[p]) \in lost'
              /\ UNCHANGED <<chans, buf, logVars, winVars>>

\* C9: after the window (and its Receiver) is dropped, every call of log
\* still returns without waiting and without a panic or an error, and its
\* line is lost: it is in no queue and no buffer, then or later.
C9_SendAfterDrop ==
    /\ [](\A p \in Producers : pc[p] \in {"idle", "send"})
    /\ []C9_NothingDelivered
    /\ [][\A p \in Producers : C9_CallAfterDrop(p)]_vars

\* The window is dropped and three lines are lost although the producers
\* made no more than Capacity calls: at most two calls were in progress when
\* the window was dropped, so one was made after it.
C9_Witness ==
    /\ win = "dropped"
    /\ AllSent
    /\ nlogs("t1") + nlogs("t2") <= Capacity
    /\ Cardinality(lost) = 3

\* The render thread ends a frame: the closure of build has run.
FrameEnds == rpc = "draw" /\ rpc' = "idle"

\* C6: a call of build (with Clear not pressed) that follows another one,
\* with no line enqueued and no clear or set_colors since that one began,
\* leaves what is displayed, and buf, as they were.
C6_RenderIdempotent ==
    [][(FrameEnds /\ calm = 2 /\ calm' = 2) =>
          (displayed' = displayed /\ buf' = buf)]_vars

\* Two lines are on display after the second of two calls of build with
\* nothing between them.
C6_Witness ==
    /\ rpc = "idle"
    /\ win = "alive"
    /\ calm = 2
    /\ Len(displayed) = 2
    /\ Len(buf) = 2

\* C7 as stated: once clear() was called and no line was enqueued since, a
\* frame drawn after it displays nothing.
C7_Original == afterClear \in {"emptyDrawn", "queuedDrawn"} => displayed = <<>>

\* C7: once clear() was called with the channel empty and no line was
\* enqueued since, a frame drawn after it displays nothing and buf is empty.
C7_ClearThenRender ==
    afterClear = "emptyDrawn" => (displayed = <<>> /\ buf = <<>>)

\* Two lines were logged and received, clear() was called, and a frame was
\* drawn with no line enqueued since.
C7_Witness ==
    /\ afterClear = "emptyDrawn"
    /\ rpc = "idle"
    /\ pc["t1"] = "idle"
    /\ Len(EnabledCalls("t1")) = 2
    /\ lost = {}

\* The field of LogColors that holds the colour of a level.
FieldOf(lvl) ==
    CASE lvl = "Trace" -> "trace"
      [] lvl = "Debug" -> "debug"
      [] lvl = "Info"  -> "info"
      [] lvl = "Warn"  -> "warn"
      [] lvl = "Error" -> "error"

\* C10: a call of set_colors leaves the window with a whole palette of the
\* caller and changes nothing else (buf, the channels, autoscroll, what is
\* on display); and every frame drawn shows each line of buf, in order, with
\* its text and in the colour the current palette holds for its level.
C10_SetColors ==
    [][/\ (win = "alive" /\ colors' # colors) =>
            /\ colors' \in Palettes
            /\ UNCHANGED <<buf, chans, autoscroll, displayed, win, winChan>>
       /\ FrameEnds =>
            /\ Len(displayed') = Len(buf')
            /\ \A i \in DOMAIN displayed' :
                  /\ displayed'[i].text = buf'[i].text
                  /\ displayed'[i].color = colors[FieldOf(buf'[i].level)]]_vars

\* The window was built with the default palette (the configuration with
\* stdout off carries no colours), an Error line was stored, set_colors
\* replaced the palette, and the frame drawn after it shows that line in the
\* new palette's colour for Error.
C10_Witness ==
    /\ rpc = "idle"
    /\ calm = 1
    /\ colors = CustomColors
    /\ ~Unwrap(logger).stdout
    /\ Len(buf) = 1
    /\ buf[1].level = "Error"
    /\ displayed = <<[color |-> CustomColors.error, text |-> buf[1].text]>>

\* The facade holds no logger before the first call of init_with_config;
\* from the first call on it holds a logger that sends to the channel of
\* the first call, the window of that call receives from it, the first call
\* returned Ok and every later one SetLoggerError, leaving its own channel
\* disconnected and empty.
C8_FirstInitOnly ==
    /\ initCalls = 0 => (logger = None /\ win = "none" /\ initResult = "None")
    /\ initCalls >= 1 =>
          /\ logger # None
          /\ Unwrap(logger).channel = 1
          /\ win \in {"alive", "dropped"}
          /\ winChan = 1
          /\ initResult = IF initCalls = 1 THEN "Ok" ELSE "SetLoggerError"
          /\ \A c \in 2..initCalls : chans[c] = [q |-> <<>>, rx |-> "closed"]

\* C8: over any sequence of calls of init_with_config only the first
\* installs a logger and returns a window; every later call fails with
\* SetLoggerError; the logger installed, once there, never changes.
C8_InitOnce ==
    /\ []C8_FirstInitOnly
    /\ [][logger # None => logger' = logger]_vars

\* A second call has failed, and the window of the first call has since
\* received a line from the logger of the first call.
C8_Witness ==
    /\ initCalls = 2
    /\ initResult = "SetLoggerError"
    /\ Feeds
    /\ Len(buf) = 1
    /\ calls["t1"] = <<"Info">>

\* The level names as the formatted line carries them.
UpperName(lvl) ==
    CASE lvl = "Error" -> "ERROR"
      [] lvl = "Warn"  -> "WARN"
      [] lvl = "Info"  -> "INFO"
      [] lvl = "Debug" -> "DEBUG"
      [] lvl = "Trace" -> "TRACE"

\* "{file}:{line} --- {LEVEL}: {message}\n" and "{target} --- {LEVEL}: {message}\n"
WithLocation(r) ==
    Unwrap(r.file) \o ":" \o ToString(Unwrap(r.line)) \o " --- "
        \o UpperName(r.level) \o ": " \o r.args \o "\n"
WithTarget(r) == r.target \o " --- " \o UpperName(r.level) \o ": " \o r.args \o "\n"

\* C11: the text of the line a call of log builds with the default formatter
\* is "{file}:{line} --- {LEVEL}: {message}\n" when the record has both a
\* file and a line, and "{target} --- {LEVEL}: {message}\n" when either is
\* missing; the two records of the example give "a.rs:10 --- WARN: x\n" and
\* "mod --- INFO: y\n".
C11_DefaultFormat ==
    /\ \A p \in Producers :
          logArg[p] # None =>
              LET r == Unwrap(logArg[p])
              IN Unwrap(pending[p]).text =
                     IF r.file # None /\ r.line # None THEN WithLocation(r)
                                                       ELSE WithTarget(r)
    /\ default_formatter([level |-> "Warn", target |-> "app", file |-> Some("a.rs"),
                          line |-> Some(10), args |-> "x"]) = "a.rs:10 --- WARN: x\n"
    /\ default_formatter([level |-> "Info", target |-> "mod", file |-> None,
                          line |-> None, args |-> "y"]) = "mod --- INFO: y\n"

\* A record with a file and no line is being logged: the line built for it
\* has the target form, and it was printed to stdout.
C11_Witness ==
    /\ pc["t1"] = "send"
    /\ logArg["t1"] = Some([level |-> "Warn", target |-> "mod", file |-> Some("a.rs"),
                             line |-> None, args |-> "x"])
    /\ Unwrap(pending["t1"]).text = "mod --- WARN: x\n"
    /\ stdout = <<"mod --- WARN: x\n">>

\* Producer p is about to call try_send and the channel of the logger holds
\* Capacity lines.
SendsOnFull(p) ==
    /\ pc[p] = "send"
    /\ chans[Unwrap(logger).channel].rx = "open"
    /\ Len(chans[Unwrap(logger).channel].q) = Capacity

\* C12: the step in which a producer's try_send meets a full channel leaves
\* every channel as it was (the queued lines, their number and order), leaves
\* buf and what is displayed as they were, and ends the call of log: the
\* producer is idle, not failed, holds no line to send again, and the line
\* is lost.
C12_FullDiscardsNew ==
    [][\A p \in Producers :
          (SendsOnFull(p) /\ pc'[p] # "send") =>
              /\ chans' = chans
              /\ buf' = buf
              /\ displayed' = displayed
              /\ pc'[p] = "idle"
              /\ pending'[p] = None
              /\ Unwrap(pending[p]) \in lost'
              /\ Unwrap(pending[p]) \notin Range(chans'[Unwrap(logger).channel].q)]_vars

\* Capacity + 1 lines were sent with no receive in between: the channel
\* still holds the first Capacity of them, in order, the last one is lost
\* and its producer has returned.
C12_Witness ==
    /\ Feeds
    /\ rpc = "idle"
    /\ AllSent
    /\ buf = <<>>
    /\ Len(offered) = Capacity + 1
    /\ Chan = SubSeq(offered, 1, Capacity)
    /\ lost = {offered[Capacity + 1]}

\* C13: while the window lives, buf followed by the channel is exactly the
\* lines whose try_send succeeded (less those a clear removed), in the order
\* in which these calls completed; no line is in it twice; and each is the
\* line of a call of log at an enabled level that has sent it: not a lost
\* line and not the line of a call still before its try_send.
C13_NoReorderNoDuplicate ==
    Feeds =>
        LET held == buf \o Chan
        IN /\ held = sent
           /\ \A i, j \in DOMAIN held : held[i] = held[j] => i = j
           /\ \A i \in DOMAIN held :
                 /\ enabled(held[i].level)
                 /\ held[i] \notin lost
                 /\ \A p \in Producers : held[i] \notin pending[p]

\* In the middle of a drain buf holds a line of t2 and then one of t1, and
\* the channel a line of t1 and then one of t2.
C13_Witness ==
    /\ Feeds
    /\ rpc = "sync"
    /\ nlogs("t1") >= 2
    /\ nlogs("t2") >= 2
    /\ buf = <<Call("t2", 1), Call("t1", 1)>>
    /\ Chan = <<Call("t1", 2), Call("t2", 2)>>

\* The lines whose try_send succeeded after the drain of this frame finished.
SentAfterDrain ==
    LET Queued(l) == l \notin lost
    IN IF drained THEN <<>> ELSE SelectSeq(offered, Queued)

\* C14: from the moment sync returns until the frame is drawn, buf holds
\* every line that was sent with success and not cleared, but for those sent
\* after sync returned, and the channel holds these later lines and no
\* other: every line sent before build was called is in buf and none of
\* them in the channel.  When no line was sent meanwhile the channel is empty.
C14_DrainComplete ==
    (Feeds /\ rpc = "draw") =>
        /\ Chan = SentAfterDrain
        /\ buf = NotIn(sent, SentAfterDrain)
        /\ drained => Chan = <<>>

\* A drain has delivered three lines of the two producers, sent before and
\* while it ran, and a fourth line, sent after it finished, waits in the
\* channel.
C14_Witness ==
    /\ Feeds
    /\ rpc = "draw"
    /\ got = 3
    /\ Len(buf) = 3
    /\ FromProducer("t1", buf) # <<>>
    /\ FromProducer("t2", buf) # <<>>
    /\ Len(Chan) = 1
    /\ sent = buf \o Chan

IsPrefix(a, b) == Len(a) <= Len(b) /\ SubSeq(b, 1, Len(a)) = a

\* The step is a call of clear(), a frame drawn with Clear pressed, or the
\* drop of the window.
ClearingStep ==
    \/ Clear
    \/ \E copy, toggle \in BOOLEAN : Draw(TRUE, copy, toggle)
    \/ DropWindow

\* C16: every step other than clear(), a frame with Clear pressed and the
\* drop of the window leaves buf as a prefix of what it is afterwards,
\* whatever its length; and a step of a producer (a call of log beginning,
\* or its try_send) leaves buf as it is.
C16_AppendOnly ==
    [][/\ ~ClearingStep => IsPrefix(buf, buf')
       /\ (pc' # pc \/ calls' # calls) => buf' = buf]_vars

\* buf has grown, over several drains, beyond the bound of the channel, while
\* a producer is in a call of log.
C16_Witness ==
    /\ Feeds
    /\ rpc = "sync"
    /\ got = 1
    /\ Len(buf) = Capacity + 1
    /\ \E p \in Producers : pc[p] = "send"

\* The texts of the lines of `lines`.
Texts(lines) == [i \in DOMAIN lines |-> lines[i].text]

\* C17: what was written to stdout is, when the logger's stdout flag is set,
\* the text of every call of log at an enabled level, once each and in the
\* order of the calls, whatever became of the call's try_send (it may not
\* have happened yet, or have failed on a full or a disconnected channel),
\* and nothing when the flag is not set; the formatter has run once per call
\* at an enabled level, so a call at Trace writes nothing and formats nothing.
C17_StdoutOnce ==
    /\ logger = None => (stdout = <<>> /\ formatted = 0)
    /\ logger # None =>
          /\ stdout = IF Unwrap(logger).stdout THEN Texts(EnabledCalls("t1")) ELSE <<>>
          /\ formatted = Len(EnabledCalls("t1"))

\* With stdout on, a call at Trace and Capacity + 2 calls at Info were made:
\* one met a full channel and, after the window was dropped, one a
\* disconnected channel; the texts of all the Info calls are on stdout.
C17_Witness ==
    /\ logger # None
    /\ Unwrap(logger).stdout
    /\ win = "dropped"
    /\ pc["t1"] = "idle"
    /\ nlogs("t1") = Capacity + 3
    /\ calls["t1"][1] = "Trace"
    /\ Len(EnabledCalls("t1")) = Capacity + 2
    /\ lost = {Call("t1", k) : k \in {nlogs("t1") - 1, nlogs("t1")}}
    /\ Len(stdout) = Capacity + 2

\* C18: a frame drawn with Clear pressed ends with buf empty and nothing
\* displayed, the lines its drain pushed discarded with the older ones; the
\* channel then holds the lines sent after its drain finished and no other,
\* and only they are left to be shown (sent).  No line that was discarded is
\* ever in buf or in the channel again, and no frame drawn displays one.
C18_DrainBeforeClear ==
    /\ [][(\E copy, toggle \in BOOLEAN : Draw(TRUE, copy, toggle)) =>
            /\ buf' = <<>>
            /\ displayed' = <<>>
            /\ Range(buf) \subseteq discarded'
            /\ Feeds => (Chan' = SentAfterDrain /\ sent' = Chan')]_vars
    /\ [][FrameEnds =>
            \A i \in DOMAIN displayed' :
                \A l \in discarded' : l.text # displayed'[i].text]_vars
    /\ [](Feeds => discarded \cap (Range(buf) \cup Range(Chan)) = {})

\* A frame has drained two lines onto an older one and displayed nothing:
\* Clear was pressed in it; a line sent after its drain is in the channel.
C18_Witness ==
    /\ Feeds
    /\ rpc = "idle"
    /\ got = 2
    /\ Len(EnabledCalls("t1")) + Len(EnabledCalls("t2")) = 4
    /\ AllSent
    /\ lost = {}
    /\ buf = <<>>
    /\ displayed = <<>>
    /\ Len(Chan) = 1
    /\ sent = Chan

\* C19: a window starts with autoscroll off; a frame leaves the scroll
\* position at the bottom of what it drew when autoscroll is on (as the
\* checkbox of that frame left it) or the position was at the bottom before,
\* and otherwise, with autoscroll off and the user scrolled up, leaves it
\* where it was, above the bottom, whatever lines the frame added.
C19_ScrollPin ==
    [][/\ (initCalls' # initCalls /\ initResult' = "Ok") => ~autoscroll'
       /\ FrameEnds =>
            LET bottom  == IF Len(buf') > ViewLines THEN Len(buf') - ViewLines ELSE 0
                pinned  == autoscroll' \/ scrollY >= scrollMaxY
            IN /\ scrollMaxY' = bottom
               /\ pinned => scrollY' = bottom
               /\ ~pinned => (scrollY' = scrollY /\ scrollY' < bottom)]_vars

\* With autoscroll off the user has scrolled up to the first line, a new
\* line has arrived, and the frame drawn since has left the position there.
C19_Witness ==
    /\ rpc = "idle"
    /\ ~autoscroll
    /\ got = 1
    /\ Len(displayed) = ViewLines + 2
    /\ scrollMaxY = 2
    /\ scrollY = 0

\* C20: a call of init_with_config that succeeds installs its logger and
\* sets the maximum level to Debug; a call that fails leaves the maximum
\* level, whatever the application had set it to, and the installed logger
\* as they were; and the maximum level is Debug only after a call succeeded.
C20_MaxLevelOnSuccess ==
    /\ [][initCalls' # initCalls =>
            IF initResult' = "Ok"
            THEN logger = None /\ logger' # None /\ maxLevel' = "Debug"
            ELSE /\ initResult' = "SetLoggerError"
                 /\ maxLevel' = maxLevel
                 /\ logger' = logger]_vars
    /\ [](maxLevel = "Debug" => logger # None)

\* The application has set the maximum level to Info after the first call;
\* a second call has failed and the level is still Info.
C20_Witness ==
    /\ initCalls = 2
    /\ initResult = "SetLoggerError"
    /\ maxLevel = "Info"
    /\ logger # None

====
